---- MODULE Spec2Model ----
(***************************************************************************)
(* Switch Pro controller emulation (switch-pico): the report scheduler     *)
(* switch_pro_task, the command interpreter behind the HID callbacks, the  *)
(* virtual flash, and the UART frame decoder poll_uart_frames.             *)
(***************************************************************************)
EXTENDS Integers, Sequences, FiniteSets, TLC

(* ------------------------------ bounds --------------------------------- *)
\* the millisecond clock of the scheduler runs up to MaxTime
MaxTime == 12
\* the UART decoder receives at most MaxRx bytes
MaxRx == 10
\* the host sends at most MaxHostReports payloads
MaxHostReports == 1
\* the link is mounted or unmounted at most MaxLinkEvents times
MaxLinkEvents == 1
\* at most MaxStalls of the received bytes come after a gap of more than 20 ms
MaxStalls == 1
\* in the endless main loop tud_hid_report() fails only while send_report has
\* counted at most MaxRejects sends since the last transmitted periodic report
MaxRejects == 1

(* ----------------------- integer helpers (uintN_t) ---------------------- *)
Byte == 0..255

\* the largest integer TLC represents; stands for a wrapped uint32_t difference
U32_WRAPPED == 2147483647

\* a - b in uint32_t arithmetic. With a < b the result wraps to 2^32 - (b - a),
\* which is beyond every threshold it is compared with; the clock never runs
\* backwards, so only the first branch is taken
SubU32(a, b) == IF a >= b THEN a - b ELSE U32_WRAPPED

\* bit n of the unsigned value v
Bit(v, n) == (v \div (2 ^ n)) % 2

\* v & mask for a single-bit mask, converted to bool
TestMask(v, mask) == ((v \div mask) % 2) = 1

Min(a, b) == IF a < b THEN a ELSE b

Max(a, b) == IF a > b THEN a ELSE b

BoolBit(b) == IF b THEN 1 ELSE 0

(* ------------------- switch_pro_descriptors.h values ------------------- *)
REPORT_OUTPUT_00 == 0

REPORT_FEATURE == 1

REPORT_OUTPUT_21 == 33

REPORT_OUTPUT_30 == 48

REPORT_CONFIGURATION == 128

REPORT_USB_INPUT_81 == 129

IDENTIFY == 1

HANDSHAKE == 2

BAUD_RATE == 3

DISABLE_USB_TIMEOUT == 4

ENABLE_USB_TIMEOUT == 5

GET_CONTROLLER_STATE == 0

BLUETOOTH_PAIR_REQUEST == 1

REQUEST_DEVICE_INFO == 2

SET_MODE == 3

TRIGGER_BUTTONS == 4

SET_SHIPMENT == 8

SPI_READ == 16

SET_NFC_IR_CONFIG == 33

SET_NFC_IR_STATE == 34

SET_PLAYER_LIGHTS == 48

GET_PLAYER_LIGHTS == 49

COMMAND_UNKNOWN_33 == 51

SET_HOME_LIGHT == 56

TOGGLE_IMU == 64

IMU_SENSITIVITY == 65

READ_IMU == 67

ENABLE_VIBRATION == 72

GET_VOLTAGE == 80

SWITCH_TYPE_PRO_CONTROLLER == 3

HID_REPORT_TYPE_INPUT == 1

HID_REPORT_TYPE_OUTPUT == 2

HID_REPORT_TYPE_FEATURE == 3

SWITCH_PRO_ENDPOINT_SIZE == 64

SWITCH_PRO_JOYSTICK_MID == 32767

SWITCH_PRO_HAT_UP == 0

SWITCH_PRO_HAT_UPRIGHT == 1

SWITCH_PRO_HAT_RIGHT == 2

SWITCH_PRO_HAT_DOWNRIGHT == 3

SWITCH_PRO_HAT_DOWN == 4

SWITCH_PRO_HAT_DOWNLEFT == 5

SWITCH_PRO_HAT_LEFT == 6

SWITCH_PRO_HAT_UPLEFT == 7

SWITCH_PRO_HAT_NOTHING == 8

SWITCH_PRO_MASK_Y == 1

SWITCH_PRO_MASK_B == 2

SWITCH_PRO_MASK_A == 4

SWITCH_PRO_MASK_X == 8

SWITCH_PRO_MASK_L == 16

SWITCH_PRO_MASK_R == 32

SWITCH_PRO_MASK_ZL == 64

SWITCH_PRO_MASK_ZR == 128

SWITCH_PRO_MASK_MINUS == 256

SWITCH_PRO_MASK_PLUS == 512

SWITCH_PRO_MASK_L3 == 1024

SWITCH_PRO_MASK_R3 == 2048

SWITCH_PRO_MASK_HOME == 4096

SWITCH_PRO_MASK_CAPTURE == 8192

(* --------------------------- program constants -------------------------- *)
\* force a report to be sent every X ms
SWITCH_PRO_KEEPALIVE_TIMER == 5

\* inter-byte deadline of the UART frame decoder, in ms
UART_STALE_MS == 20

\* sizeof(buffer) in poll_uart_frames
UART_FRAME_SIZE == 8

\* start-of-frame marker
UART_SOF == 170

\* switch-pico.cpp: the first two bytes of a rumble frame
UART_RUMBLE_HEADER == 187

UART_RUMBLE_RUMBLE_TYPE == 1

(* ------------------------------ flash blobs ----------------------------- *)
\* the explicit initialisers of factory_config_data[0xEFF]; the rest is 0
FactoryInit ==
    <<
       255, 255, 255, 255, 255, 255, 255, 255, 255, 255, 255, 255, 255, 255, 255, 255,
       255, 255, 3, 160, 255, 255, 255, 255, 255, 255, 255, 2, 255, 255, 255, 255,
       227, 255, 57, 255, 237, 1, 0, 64, 0, 64, 0, 64, 9, 0, 234, 255,
       161, 255, 59, 52, 59, 52, 59, 52, 255, 255, 255, 255, 255, 164, 70, 106,
       0, 8, 128, 164, 70, 106, 0, 8, 128, 164, 70, 106, 164, 70, 106, 255,
       27, 27, 29, 255, 255, 255, 236, 0, 140, 236, 0, 140, 1, 255, 255, 255,
       255, 255, 255, 255, 255, 255, 255, 255, 255, 255, 255, 255, 255, 255, 255, 255,
       255, 255, 255, 255, 255, 255, 255, 255, 255, 255, 255, 255, 255, 255, 255, 255,
       80, 253, 0, 0, 198, 15, 15, 48, 97, 174, 144, 217, 212, 20, 84, 65,
       21, 84, 199, 121, 156, 51, 54, 99, 15, 48, 97, 174, 144, 217, 212, 20,
       84, 65, 21, 84, 199, 121, 156, 51, 54, 99, 255, 255, 255, 255, 255, 255 >>

FACTORY_SIZE == 3839

\* the explicit initialisers of user_calibration_data[0x3F]; the rest is 0
UserCalInit ==
    <<
       255, 255, 255, 255, 255, 255, 255, 255, 255, 255, 255, 255, 255, 255, 255, 255,
       178, 161, 164, 70, 106, 0, 8, 128, 164, 70, 106, 178, 161, 0, 8, 128,
       164, 70, 106, 164, 70, 106, 255, 255, 255, 255, 255, 255, 255, 255, 255, 255,
       255, 255, 255, 255, 255, 255 >>

USERCAL_SIZE == 63

factory_config_data(i) == IF i < Len(FactoryInit) THEN FactoryInit[i + 1] ELSE 0

user_calibration_data(i) == IF i < Len(UserCalInit) THEN UserCalInit[i + 1] ELSE 0

\* std::map spi_flash_data: the banks that are mapped
FLASH_BANK_FACTORY == 24576

FLASH_BANK_USERCAL == 32768

spi_flash_data == {FLASH_BANK_FACTORY, FLASH_BANK_USERCAL}

(* -------------------------------- state --------------------------------- *)
VARIABLES
    \* switch_pro_driver.cpp file-scope state (last_host_activity_ms, which is
    \* written and never read, is left out)
    g_input_state, report_buffer, last_report, switch_report,
    last_report_counter, last_report_timer,
    is_ready, is_initialized, is_report_queued, report_sent,
    queued_report_id, forced_ready, handshake_counter,
    device_info, player_id, input_mode, is_imu_enabled, is_vibration_enabled,
    cal,
    \* switch-pico.cpp: poll_uart_frames statics and g_user_state
    buffer, index, last_byte_time, has_last_byte, g_user_state,
    \* the frame last written to the UART by the rumble relay
    uart_tx,
    \* environment: the millisecond clock as last read, main() past
    \* switch_pro_init(), the host payloads and link events so far
    now, booted, host_reports, link_events,
    \* observers: what the last step did, and histories the properties read
    obs, awaiting, phase, quiet_ticks, quiet_sent,
    rx_hist, rx_count, rx_dropped, rx_stalls

driverVars == <<g_input_state, report_buffer, last_report, switch_report,
    last_report_counter, last_report_timer,
    is_ready, is_initialized, is_report_queued, report_sent,
    queued_report_id, forced_ready, handshake_counter,
    device_info, player_id, input_mode, is_imu_enabled, is_vibration_enabled,
    cal>>

uartVars == <<buffer, index, last_byte_time, has_last_byte, g_user_state, uart_tx>>

histVars == <<awaiting, phase, quiet_ticks, quiet_sent>>

rxHistVars == <<rx_hist, rx_count, rx_dropped, rx_stalls>>

envVars == <<now, booted, host_reports, link_events>>

vars == <<driverVars, uartVars, envVars, obs, histVars, rxHistVars>>

(* ----------------------------- SwitchInputState ------------------------- *)
\* make_neutral_state / neutral_input: everything false, axes at the midpoint
make_neutral_state ==
    [dpad_up |-> FALSE, dpad_down |-> FALSE, dpad_left |-> FALSE, dpad_right |-> FALSE,
     button_a |-> FALSE, button_b |-> FALSE, button_x |-> FALSE, button_y |-> FALSE,
     button_l |-> FALSE, button_r |-> FALSE, button_zl |-> FALSE, button_zr |-> FALSE,
     button_plus |-> FALSE, button_minus |-> FALSE, button_home |-> FALSE,
     button_capture |-> FALSE, button_l3 |-> FALSE, button_r3 |-> FALSE,
     lx |-> SWITCH_PRO_JOYSTICK_MID, ly |-> SWITCH_PRO_JOYSTICK_MID,
     rx |-> SWITCH_PRO_JOYSTICK_MID, ry |-> SWITCH_PRO_JOYSTICK_MID]

\* an expansion that shifts and forgets to replicate the byte
expand_axis_shift(v) == (v * 256) % 65536

\* the lambda expand_axis: (uint16_t)v << 8 | v
expand_axis(v) == ((v * 256) % 65536) + v

\* a button word assembled high byte first
ButtonWordBigEndian(lo, hi) == hi + ((lo * 256) % 65536)

\* out.buttons = packet[1] | packet[2] << 8
ButtonWord(lo, hi) == lo + ((hi * 256) % 65536)

\* a switch whose diagonal cases set only their first flag
DpadOfFirstFlag(hat) ==
    [up |-> hat \in {SWITCH_PRO_HAT_UP, SWITCH_PRO_HAT_UPRIGHT, SWITCH_PRO_HAT_UPLEFT},
     right |-> hat = SWITCH_PRO_HAT_RIGHT,
     down |-> hat \in {SWITCH_PRO_HAT_DOWNRIGHT, SWITCH_PRO_HAT_DOWN, SWITCH_PRO_HAT_DOWNLEFT},
     left |-> hat = SWITCH_PRO_HAT_LEFT]

\* switch (out.hat): the dpad flags each case sets on the neutral state
DpadOf(hat) ==
    [up |-> hat \in {SWITCH_PRO_HAT_UP, SWITCH_PRO_HAT_UPRIGHT, SWITCH_PRO_HAT_UPLEFT},
     right |-> hat \in {SWITCH_PRO_HAT_UPRIGHT, SWITCH_PRO_HAT_RIGHT, SWITCH_PRO_HAT_DOWNRIGHT},
     down |-> hat \in {SWITCH_PRO_HAT_DOWNRIGHT, SWITCH_PRO_HAT_DOWN, SWITCH_PRO_HAT_DOWNLEFT},
     left |-> hat \in {SWITCH_PRO_HAT_DOWNLEFT, SWITCH_PRO_HAT_LEFT, SWITCH_PRO_HAT_UPLEFT}]

\* switch_pro_apply_uart_packet on packet[0..length-1] (a 0-based function):
\* the return value ok and the state written to *out_state
switch_pro_apply_uart_packet(packet, length) ==
    IF length < 8 \/ packet[0] # UART_SOF
    THEN [ok |-> FALSE, state |-> make_neutral_state]
    ELSE
      LET buttons == ButtonWord(packet[1], packet[2])
          dpad == DpadOf(packet[3])
      IN [ok |-> TRUE, state |->
         [dpad_up |-> dpad.up, dpad_down |-> dpad.down,
          dpad_left |-> dpad.left, dpad_right |-> dpad.right,
          button_a |-> TestMask(buttons, SWITCH_PRO_MASK_A),
          button_b |-> TestMask(buttons, SWITCH_PRO_MASK_B),
          button_x |-> TestMask(buttons, SWITCH_PRO_MASK_X),
          button_y |-> TestMask(buttons, SWITCH_PRO_MASK_Y),
          button_l |-> TestMask(buttons, SWITCH_PRO_MASK_L),
          button_r |-> TestMask(buttons, SWITCH_PRO_MASK_R),
          button_zl |-> TestMask(buttons, SWITCH_PRO_MASK_ZL),
          button_zr |-> TestMask(buttons, SWITCH_PRO_MASK_ZR),
          button_plus |-> TestMask(buttons, SWITCH_PRO_MASK_PLUS),
          button_minus |-> TestMask(buttons, SWITCH_PRO_MASK_MINUS),
          button_home |-> TestMask(buttons, SWITCH_PRO_MASK_HOME),
          button_capture |-> TestMask(buttons, SWITCH_PRO_MASK_CAPTURE),
          button_l3 |-> TestMask(buttons, SWITCH_PRO_MASK_L3),
          button_r3 |-> TestMask(buttons, SWITCH_PRO_MASK_R3),
          lx |-> expand_axis(packet[4]), ly |-> expand_axis(packet[5]),
          rx |-> expand_axis(packet[6]), ry |-> expand_axis(packet[7])]]

(* ------------------------- calibration, SwitchAnalog -------------------- *)
\* two 12-bit values packed in the 3 bytes at blob offset o: <<x, y>>
Packed12(o) ==
    LET b0 == factory_config_data(o)
        b1 == factory_config_data(o + 1)
        b2 == factory_config_data(o + 2)
    IN <<((b1 % 16) * 256) + b0, (b2 * 16) + (b1 \div 16)>>

\* offsets of leftStickCalibration / rightStickCalibration in the factory blob
LEFT_CAL_OFFSET == 61

RIGHT_CAL_OFFSET == 70

\* left stick stores max, center, min; right stick stores center, min, max
getRealMinLeft ==
    LET c == Packed12(LEFT_CAL_OFFSET + 3)
        m == Packed12(LEFT_CAL_OFFSET + 6)
    IN <<(c[1] - m[1] + 65536) % 65536, (c[2] - m[2] + 65536) % 65536>>

getRealMaxLeft ==
    LET c == Packed12(LEFT_CAL_OFFSET + 3)
        m == Packed12(LEFT_CAL_OFFSET)
    IN <<(c[1] + m[1]) % 65536, (c[2] + m[2]) % 65536>>

getRealMinRight ==
    LET c == Packed12(RIGHT_CAL_OFFSET)
        m == Packed12(RIGHT_CAL_OFFSET + 3)
    IN <<(c[1] - m[1] + 65536) % 65536, (c[2] - m[2] + 65536) % 65536>>

getRealMaxRight ==
    LET c == Packed12(RIGHT_CAL_OFFSET)
        m == Packed12(RIGHT_CAL_OFFSET + 6)
    IN <<(c[1] + m[1]) % 65536, (c[2] + m[2]) % 65536>>

\* the calibration globals before switch_pro_init (zero-initialised statics)
CalZero ==
    [leftMinX |-> 0, leftMinY |-> 0, leftMaxX |-> 0, leftMaxY |-> 0,
     rightMinX |-> 0, rightMinY |-> 0, rightMaxX |-> 0, rightMaxY |-> 0]

\* the calibration globals as switch_pro_init leaves them
CalParsed ==
    [leftMinX |-> getRealMinLeft[1], leftMinY |-> getRealMinLeft[2],
     leftMaxX |-> getRealMaxLeft[1], leftMaxY |-> getRealMaxLeft[2],
     rightMinX |-> getRealMinRight[1], rightMinY |-> getRealMinRight[2],
     rightMaxX |-> getRealMaxRight[1], rightMaxY |-> getRealMaxRight[2]]

scale16To12(pos) == pos \div 16

\* SwitchAnalog::setX on the 3 data bytes d (1-based tuple), x a uint16_t
setX(d, x) == <<x % 256, ((d[2] \div 16) * 16) + ((x \div 256) % 16), d[3]>>

\* SwitchAnalog::setY on the 3 data bytes d, y a uint16_t
setY(d, y) == <<d[1], (d[2] % 16) + ((y % 16) * 16), (y \div 16) % 256>>

\* a report builder that does not clamp
ClampNone(v, lo, hi) == v

\* std::min(std::max(v, lo), hi)
Clamp(v, lo, hi) == Min(Max(v, lo), hi)

\* -v converted to the uint16_t parameter of setY
NegU16(v) == (65536 - v) % 65536

(* ------------------------------ SwitchProReport ------------------------- *)
\* SwitchInputReport as value-initialised (all zero)
InputsZero ==
    [connectionInfo |-> 0, batteryLevel |-> 0,
     buttonY |-> 0, buttonX |-> 0, buttonB |-> 0, buttonA |-> 0,
     buttonRightSR |-> 0, buttonRightSL |-> 0, buttonR |-> 0, buttonZR |-> 0,
     buttonMinus |-> 0, buttonPlus |-> 0, buttonThumbR |-> 0, buttonThumbL |-> 0,
     buttonHome |-> 0, buttonCapture |-> 0, dummy |-> 0, chargingGrip |-> 0,
     dpadDown |-> 0, dpadUp |-> 0, dpadRight |-> 0, dpadLeft |-> 0,
     buttonLeftSL |-> 0, buttonLeftSR |-> 0, buttonL |-> 0, buttonZL |-> 0,
     leftStick |-> <<0, 0, 0>>, rightStick |-> <<0, 0, 0>>]

\* switch_report{} and last_report[] = {}: every byte zero (imuData and
\* padding are never written and stay zero, so they are left out)
ReportZero ==
    [reportID |-> 0, timestamp |-> 0, inputs |-> InputsZero, rumbleReport |-> 0]

\* the value switch_pro_init assigns to switch_report
ReportInit ==
    [reportID |-> 48, timestamp |-> 0,
     inputs |-> [InputsZero EXCEPT !.connectionInfo = 8, !.batteryLevel = 15,
                                   !.leftStick = <<255, 247, 127>>,
                                   !.rightStick = <<255, 247, 127>>],
     rumbleReport |-> 0]

\* update_switch_report_from_state: switch_report rebuilt from g_input_state
update_switch_report_from_state(rep, st, c) ==
    LET in == rep.inputs
        lX == Clamp(scale16To12(st.lx), c.leftMinX, c.leftMaxX)
        lY == NegU16(Clamp(scale16To12(st.ly), c.leftMinY, c.leftMaxY))
        rX == Clamp(scale16To12(st.rx), c.rightMinX, c.rightMaxX)
        rY == NegU16(Clamp(scale16To12(st.ry), c.rightMinY, c.rightMaxY))
    IN [rep EXCEPT
          !.inputs = [in EXCEPT
              !.dpadUp = BoolBit(st.dpad_up), !.dpadDown = BoolBit(st.dpad_down),
              !.dpadLeft = BoolBit(st.dpad_left), !.dpadRight = BoolBit(st.dpad_right),
              !.chargingGrip = 1,
              !.buttonY = BoolBit(st.button_y), !.buttonX = BoolBit(st.button_x),
              !.buttonB = BoolBit(st.button_b), !.buttonA = BoolBit(st.button_a),
              !.buttonRightSR = 0, !.buttonRightSL = 0,
              !.buttonR = BoolBit(st.button_r), !.buttonZR = BoolBit(st.button_zr),
              !.buttonMinus = BoolBit(st.button_minus), !.buttonPlus = BoolBit(st.button_plus),
              !.buttonThumbR = BoolBit(st.button_r3), !.buttonThumbL = BoolBit(st.button_l3),
              !.buttonHome = BoolBit(st.button_home), !.buttonCapture = BoolBit(st.button_capture),
              !.buttonLeftSR = 0, !.buttonLeftSL = 0,
              !.buttonL = BoolBit(st.button_l), !.buttonZL = BoolBit(st.button_zl),
              !.leftStick = setY(setX(in.leftStick, lX), lY),
              !.rightStick = setY(setX(in.rightStick, rX), rY)],
          !.rumbleReport = 9]

\* the bytes of a SwitchInputReport (bit-fields in declaration order, LSB first)
InputBytes(in) ==
    <<in.connectionInfo + (16 * in.batteryLevel),
      in.buttonY + (2 * in.buttonX) + (4 * in.buttonB) + (8 * in.buttonA)
        + (16 * in.buttonRightSR) + (32 * in.buttonRightSL)
        + (64 * in.buttonR) + (128 * in.buttonZR),
      in.buttonMinus + (2 * in.buttonPlus) + (4 * in.buttonThumbR)
        + (8 * in.buttonThumbL) + (16 * in.buttonHome) + (32 * in.buttonCapture)
        + (64 * in.dummy) + (128 * in.chargingGrip),
      in.dpadDown + (2 * in.dpadUp) + (4 * in.dpadRight) + (8 * in.dpadLeft)
        + (16 * in.buttonLeftSL) + (32 * in.buttonLeftSR)
        + (64 * in.buttonL) + (128 * in.buttonZL),
      in.leftStick[1], in.leftStick[2], in.leftStick[3],
      in.rightStick[1], in.rightStick[2], in.rightStick[3]>>

(* ------------------------------ report_buffer --------------------------- *)
BufIdx == 0..(SWITCH_PRO_ENDPOINT_SIZE - 1)

BufZero == [i \in BufIdx |-> 0]

\* memset(report_buffer, 0x00, n)
ClearPrefix(buf, n) == [i \in BufIdx |-> IF i < n THEN 0 ELSE buf[i]]

\* memcpy(report_buffer + at, bytes, Len(bytes)) for a copy that stays inside
CopyAt(buf, at, bytes) ==
    [i \in BufIdx |-> IF i >= at /\ i < at + Len(bytes) THEN bytes[i - at + 1] ELSE buf[i]]

\* SwitchDeviceInfo{} before switch_pro_init
DeviceInfoZero ==
    [majorVersion |-> 0, minorVersion |-> 0, controllerType |-> 0, unknown00 |-> 0,
     macAddress |-> <<0, 0, 0, 0, 0, 0>>, unknown01 |-> 0, storedColors |-> 0]

\* the device_info switch_pro_init builds; r is the three get_rand_32() % 0xff
DeviceInfoInit(r) ==
    [majorVersion |-> 4, minorVersion |-> 145,
     controllerType |-> SWITCH_TYPE_PRO_CONTROLLER, unknown00 |-> 2,
     macAddress |-> <<124, 187, 138, r[1], r[2], r[3]>>,
     unknown01 |-> 1, storedColors |-> 2]

DeviceInfoBytes(d) ==
    <<d.majorVersion, d.minorVersion, d.controllerType, d.unknown00>>
      \o d.macAddress \o <<d.unknown01, d.storedColors>>

\* send_identify: the identification report written into report_buffer
send_identify(d) ==
    [i \in BufIdx |->
        CASE i = 0 -> REPORT_USB_INPUT_81
          [] i = 1 -> IDENTIFY
          [] i = 3 -> d.controllerType
          [] i >= 4 /\ i < 10 -> d.macAddress[6 - (i - 4)]
          [] OTHER -> 0]

(* ------------------------------ virtual flash --------------------------- *)
\* read_spi_flash: the size bytes written to dest. A read past the end of a
\* mapped blob is outside the array; junk is the byte such a read yields.
read_spi_flash(address, size, junk) ==
    LET addressBank == address - (address % 256)
        addressOffset == address % 256
    IN [k \in 1..size |->
          IF addressBank = FLASH_BANK_FACTORY
            THEN (IF addressOffset + k - 1 < FACTORY_SIZE
                    THEN factory_config_data(addressOffset + k - 1) ELSE junk)
          ELSE IF addressBank = FLASH_BANK_USERCAL
            THEN (IF addressOffset + k - 1 < USERCAL_SIZE
                    THEN user_calibration_data(addressOffset + k - 1) ELSE junk)
          ELSE 255]

(* --------------------------- command interpreter ------------------------ *)
\* a handler in which the identify request completes the handshake as well
ReadyOnIdentify(sub, ready) ==
    IF sub \in {DISABLE_USB_TIMEOUT, IDENTIFY} THEN TRUE ELSE ready

\* is_ready after handle_config_report: only DISABLE_USB_TIMEOUT stores to it
ReadyAfterConfig(sub, ready) == IF sub = DISABLE_USB_TIMEOUT THEN TRUE ELSE ready

\* handle_config_report: report_buffer and is_ready as the switch leaves them;
\* every branch sets canSend, so is_report_queued becomes true
handle_config_report(buf, sub, d, ready) ==
    CASE sub = IDENTIFY ->
           [report_buffer |-> send_identify(d), is_ready |-> ReadyAfterConfig(sub, ready), canSend |-> TRUE]
      [] sub = HANDSHAKE ->
           [report_buffer |-> [buf EXCEPT ![0] = REPORT_USB_INPUT_81, ![1] = HANDSHAKE],
            is_ready |-> ReadyAfterConfig(sub, ready), canSend |-> TRUE]
      [] sub = BAUD_RATE ->
           [report_buffer |-> [buf EXCEPT ![0] = REPORT_USB_INPUT_81, ![1] = BAUD_RATE],
            is_ready |-> ReadyAfterConfig(sub, ready), canSend |-> TRUE]
      [] sub = DISABLE_USB_TIMEOUT ->
           [report_buffer |-> [buf EXCEPT ![0] = REPORT_OUTPUT_30, ![1] = sub],
            is_ready |-> ReadyAfterConfig(sub, ready), canSend |-> TRUE]
      [] sub = ENABLE_USB_TIMEOUT ->
           [report_buffer |-> [buf EXCEPT ![0] = REPORT_OUTPUT_30, ![1] = sub],
            is_ready |-> ReadyAfterConfig(sub, ready), canSend |-> TRUE]
      [] OTHER ->
           [report_buffer |-> [buf EXCEPT ![0] = REPORT_OUTPUT_30, ![1] = sub],
            is_ready |-> ReadyAfterConfig(sub, ready), canSend |-> TRUE]

\* the session fields handle_feature_report may store into
\* the index behind the last byte the spi-read case has read_spi_flash write:
\* read_spi_flash(&report_buffer[20], spiReadAddress, spiReadSize) copies
\* spiReadSize bytes
SpiWriteEnd(rd) == 20 + rd[15]

\* the index behind the last byte read_spi_flash reads from the bank's blob:
\* memcpy(dest, data + addressOffset, size)
SpiReadEnd(rd) == rd[11] + rd[15]

Session == [input_mode |-> input_mode, player_id |-> player_id,
            is_imu_enabled |-> is_imu_enabled,
            is_vibration_enabled |-> is_vibration_enabled]

\* handle_feature_report on the inbound bytes rd (reportData), with buf the
\* report_buffer on entry: the reply, the session fields, canSend
handle_feature_report(buf, rd, rep, counter, d, ses, junk) ==
    LET commandID == rd[10]
        b0 == CopyAt([buf EXCEPT ![0] = REPORT_OUTPUT_21, ![1] = counter],
                     2, InputBytes(rep.inputs))
        Ack(b, x13, x14) == [b EXCEPT ![13] = x13, ![14] = x14]
        Ack3(b, x13, x14, x15) == [b EXCEPT ![13] = x13, ![14] = x14, ![15] = x15]
        spiReadAddress == (rd[14] * 16777216) + (rd[13] * 65536) + (rd[12] * 256) + rd[11]
        spiReadSize == rd[15]
    IN CASE commandID = GET_CONTROLLER_STATE ->
              [report_buffer |-> Ack3(b0, 128, commandID, 3), ses |-> ses, canSend |-> TRUE]
         [] commandID = BLUETOOTH_PAIR_REQUEST ->
              [report_buffer |-> Ack3(b0, 129, commandID, 3), ses |-> ses, canSend |-> TRUE]
         [] commandID = REQUEST_DEVICE_INFO ->
              [report_buffer |-> CopyAt(Ack(b0, 130, 2), 15, DeviceInfoBytes(d)),
               ses |-> ses, canSend |-> TRUE]
         [] commandID = SET_MODE ->
              [report_buffer |-> Ack3(b0, 128, 3, rd[11]),
               ses |-> [ses EXCEPT !.input_mode = rd[11]], canSend |-> TRUE]
         [] commandID = TRIGGER_BUTTONS ->
              [report_buffer |-> Ack(b0, 131, 4), ses |-> ses, canSend |-> TRUE]
         [] commandID = SET_SHIPMENT ->
              [report_buffer |-> Ack(b0, 128, commandID), ses |-> ses, canSend |-> TRUE]
         [] commandID = SPI_READ ->
              [report_buffer |->
                   CopyAt(CopyAt(b0, 13, <<144, rd[10], rd[11], rd[12], rd[13], rd[14], rd[15]>>),
                          20, read_spi_flash(spiReadAddress, spiReadSize, junk)),
               ses |-> ses, canSend |-> TRUE]
         [] commandID = SET_NFC_IR_CONFIG ->
              [report_buffer |-> Ack(b0, 128, commandID), ses |-> ses, canSend |-> TRUE]
         [] commandID = SET_NFC_IR_STATE ->
              [report_buffer |-> Ack(b0, 128, commandID), ses |-> ses, canSend |-> TRUE]
         [] commandID = SET_PLAYER_LIGHTS ->
              [report_buffer |-> Ack(b0, 128, commandID),
               ses |-> [ses EXCEPT !.player_id = rd[11]], canSend |-> TRUE]
         [] commandID = GET_PLAYER_LIGHTS ->
              [report_buffer |-> Ack3(b0, 176, commandID, rd[11]),
               ses |-> [ses EXCEPT !.player_id = rd[11]], canSend |-> TRUE]
         [] commandID = COMMAND_UNKNOWN_33 ->
              [report_buffer |-> Ack3(b0, 128, commandID, 3), ses |-> ses, canSend |-> TRUE]
         [] commandID = SET_HOME_LIGHT ->
              [report_buffer |-> Ack3(b0, 128, commandID, 0), ses |-> ses, canSend |-> TRUE]
         [] commandID = TOGGLE_IMU ->
              [report_buffer |-> Ack3(b0, 128, commandID, 0),
               ses |-> [ses EXCEPT !.is_imu_enabled = (rd[11] # 0)], canSend |-> TRUE]
         [] commandID = IMU_SENSITIVITY ->
              [report_buffer |-> Ack(b0, 128, commandID), ses |-> ses, canSend |-> TRUE]
         [] commandID = ENABLE_VIBRATION ->
              [report_buffer |-> Ack3(b0, 128, commandID, 0),
               ses |-> [ses EXCEPT !.is_vibration_enabled = (rd[11] # 0)], canSend |-> TRUE]
         [] commandID = READ_IMU ->
              [report_buffer |-> CopyAt(b0, 13, <<192, commandID, rd[11], rd[12]>>),
               ses |-> ses, canSend |-> TRUE]
         [] commandID = GET_VOLTAGE ->
              [report_buffer |-> CopyAt(b0, 13, <<208, 80, 131, 6>>),
               ses |-> ses, canSend |-> TRUE]
         [] OTHER ->
              [report_buffer |-> Ack3(b0, 128, commandID, 3), ses |-> ses, canSend |-> TRUE]

(* ------------------------------ environment ---------------------------- *)
\* the transport's answer to one send attempt "tud_hid_ready() && send":
\* tud_hid_ready() false, tud_hid_report() false, or the report accepted
Transport == {"busy", "reject", "accept"}

\* the milliseconds that pass between two clock readings of switch_pro_task
TimeSteps == {0, 5, 6}

\* the three get_rand_32() % 0xff draws of switch_pro_init
RandomMacs == {<<18, 52, 254>>}

\* a frame as poll_uart_frames hands it over: bytes 0..7
Frame(bytes) == [i \in 0..(Len(bytes) - 1) |-> bytes[i + 1]]

\* the input states the main loop feeds to switch_pro_set_input
InputStates ==
    {make_neutral_state,
     switch_pro_apply_uart_packet(Frame(<<170, 4, 16, 1, 0, 255, 128, 128>>), 8).state}

\* the bytes of an inbound payload the callbacks read: 0, 1 and 10..15
HostBuf(b0, b1, b10, b11, b12, b13, b14, b15) ==
    [i \in 0..15 |->
        CASE i = 0 -> b0 [] i = 1 -> b1 [] i = 10 -> b10 [] i = 11 -> b11
          [] i = 12 -> b12 [] i = 13 -> b13 [] i = 14 -> b14 [] i = 15 -> b15
          [] OTHER -> 0]

\* every inbound payload of the command set: every configuration
\* sub-command byte, every feature command byte with an argument byte,
\* spi-read requests that stay inside the blobs and the reply buffer, and
\* payloads on other channels
AllPayloads ==
    {HostBuf(REPORT_CONFIGURATION, sub, 0, 0, 0, 0, 0, 0) : sub \in Byte}
    \cup {HostBuf(REPORT_FEATURE, 0, cmd, 1, 0, 0, 0, 0) : cmd \in Byte \ {SPI_READ}}
    \cup {HostBuf(REPORT_FEATURE, 0, SPI_READ, lo, hi, 0, 0, sz) :
             lo \in {0, 61}, hi \in {96, 128, 80}, sz \in {0, 2}}
    \cup {HostBuf(REPORT_OUTPUT_00, 0, 0, 0, 0, 0, 0, 0),
          HostBuf(16, 0, 0, 0, 0, 0, 0, 0)}

\* spi-read requests: offsets at the start, inside and at the end of a bank,
\* the two mapped banks and banks that are not mapped, sizes from none to
\* more than the reply buffer holds behind offset 20
SpiPayloads ==
    {HostBuf(REPORT_FEATURE, 0, SPI_READ, lo, hi, b13, 0, sz) :
        lo \in {0, 1, 40, 62, 63, 255}, hi \in {96, 97, 128, 80}, b13 \in {0, 1},
        sz \in {0, 1, 2, 29, 44, 45}}

\* the feature commands that store into the session: the player lights set
\* and read with each of four ids, the input mode, the IMU and the vibration;
\* and payloads on channels the callbacks do not dispatch: the no-op output
\* report and an unknown channel id
SessionPayloads ==
    {HostBuf(REPORT_FEATURE, 0, cmd, p, 0, 0, 0, 0) :
        cmd \in {SET_PLAYER_LIGHTS, GET_PLAYER_LIGHTS}, p \in 0..3}
    \cup {HostBuf(REPORT_FEATURE, 0, cmd, a, 0, 0, 0, 0) :
             cmd \in {SET_MODE, TOGGLE_IMU, ENABLE_VIBRATION}, a \in {0, 1}}
    \cup {HostBuf(REPORT_OUTPUT_00, 0, 0, 0, 0, 0, 0, 0),
          HostBuf(16, 0, 0, 0, 0, 0, 0, 0)}

\* the inbound payloads of the scheduler's specification: the handshake
\* commands, one feature command, and the no-op output report
HostPayloads ==
    {HostBuf(REPORT_CONFIGURATION, IDENTIFY, 0, 0, 0, 0, 0, 0),
     HostBuf(REPORT_CONFIGURATION, DISABLE_USB_TIMEOUT, 0, 0, 0, 0, 0, 0),
     HostBuf(REPORT_FEATURE, 0, SET_PLAYER_LIGHTS, 1, 0, 0, 0, 0),
     HostBuf(REPORT_OUTPUT_00, 0, 0, 0, 0, 0, 0, 0)}

\* bufsize of an inbound payload
AllBufSizes == {64}

BufSizes == {64}

\* report_id the transport passes to the callbacks
ReportIds == {0}

\* the byte a read outside a flash blob yields
JunkBytes == {0, 255}

(* -------------------------------- observers ----------------------------- *)
\* the record of the last step: which operation; for a callback the inbound
\* payload's channel, sub-command and whether it came as an OUTPUT report;
\* for a tick whether a reply was queued on entry, whether more than the
\* keepalive interval had passed since last_report_timer, whether the fresh
\* report differed from the last transmitted one, whether the first send
\* attempt found the transport busy, and the reports handed to the transport,
\* in order, each with the transport's verdict; for a received byte whether
\* a frame was emitted; rd is the payload a callback or a relay was handed
ObsOf(op) ==
    [op |-> op, rid |-> -1, sub |-> -1, output |-> FALSE, rd |-> <<>>,
     queued0 |-> FALSE, due0 |-> FALSE, differs0 |-> FALSE, busy |-> FALSE,
     sent |-> <<>>, emitted |-> FALSE]

\* the reports the last tick got the transport to accept
Transmitted == SelectSeq(obs.sent, LAMBDA e : e.ok)

HasKind(seq, k) == \E i \in 1..Len(seq) : seq[i].kind = k

(* ------------------------------ initial state --------------------------- *)
\* the static initialisers of switch_pro_driver.cpp and switch-pico.cpp,
\* before main() has called switch_pro_init()
Init ==
    /\ g_input_state = make_neutral_state
    /\ report_buffer = BufZero
    /\ last_report = ReportZero
    /\ switch_report = ReportZero
    /\ last_report_counter = 0
    /\ last_report_timer = 0
    /\ is_ready = FALSE
    /\ is_initialized = FALSE
    /\ is_report_queued = FALSE
    /\ report_sent = FALSE
    /\ queued_report_id = 0
    /\ forced_ready = FALSE
    /\ handshake_counter = 0
    /\ device_info = DeviceInfoZero
    /\ player_id = 0
    /\ input_mode = 48
    /\ is_imu_enabled = FALSE
    /\ is_vibration_enabled = FALSE
    /\ cal = CalZero
    /\ buffer = [i \in 0..(UART_FRAME_SIZE - 1) |-> 0]
    /\ index = 0
    /\ last_byte_time = 0
    /\ has_last_byte = FALSE
    /\ g_user_state = make_neutral_state
    /\ uart_tx = <<>>
    /\ now = 0
    /\ booted = FALSE
    /\ host_reports = 0
    /\ link_events = 0
    /\ obs = ObsOf("start")
    /\ awaiting = FALSE
    /\ phase = "boot"
    /\ quiet_ticks = 0
    /\ quiet_sent = 0
    /\ rx_hist = <<>>
    /\ rx_count = 0
    /\ rx_dropped = FALSE
    /\ rx_stalls = 0

(* --------------------------- driver operations -------------------------- *)
\* is_ready as switch_pro_init leaves it (false at line 459, forced at 465)
InitReady == TRUE

\* is_initialized as switch_pro_init leaves it (false at 460, forced at 466)
InitInitialized == TRUE

\* switch_pro_init, called once by main() before the loop
switch_pro_init ==
    /\ ~booted
    /\ \E r \in RandomMacs : device_info' = DeviceInfoInit(r)
    /\ player_id' = 0
    /\ last_report_counter' = 0
    /\ handshake_counter' = 0
    /\ is_ready' = InitReady
    /\ is_initialized' = InitInitialized
    /\ is_report_queued' = FALSE
    /\ report_sent' = FALSE
    /\ forced_ready' = TRUE
    /\ switch_report' = ReportInit
    /\ last_report_timer' = now
    /\ cal' = CalParsed
    /\ booted' = TRUE
    /\ obs' = ObsOf("init")
    /\ quiet_ticks' = 0
    /\ quiet_sent' = 0
    /\ UNCHANGED <<g_input_state, report_buffer, last_report, queued_report_id,
                   input_mode, is_imu_enabled, is_vibration_enabled,
                   uartVars, now, host_reports, link_events, awaiting, phase,
                   rxHistVars>>

\* switch_pro_set_input, called by the main loop with the current user state
switch_pro_set_input ==
    /\ booted
    /\ \E s \in InputStates :
          /\ g_input_state' = s
          /\ quiet_ticks' = IF s = g_input_state THEN quiet_ticks ELSE 0
          /\ quiet_sent' = IF s = g_input_state THEN quiet_sent ELSE 0
    /\ obs' = ObsOf("input")
    /\ UNCHANGED <<report_buffer, last_report, switch_report,
                   last_report_counter, last_report_timer,
                   is_ready, is_initialized, is_report_queued, report_sent,
                   queued_report_id, forced_ready, handshake_counter,
                   device_info, player_id, input_mode, is_imu_enabled,
                   is_vibration_enabled, cal,
                   uartVars, envVars, awaiting, phase, rxHistVars>>

\* a link callback that keeps the ready flag
MountReadyKept == is_ready

\* is_ready as tud_mount_cb / tud_umount_cb leave it
MountReady == FALSE

\* tud_mount_cb
tud_mount_cb ==
    /\ booted
    /\ link_events < MaxLinkEvents
    /\ link_events' = link_events + 1
    /\ forced_ready' = FALSE
    /\ is_ready' = MountReady
    /\ is_initialized' = FALSE
    /\ obs' = ObsOf("link")
    /\ phase' = "reset"
    /\ quiet_ticks' = 0
    /\ quiet_sent' = 0
    /\ UNCHANGED <<g_input_state, report_buffer, last_report, switch_report,
                   last_report_counter, last_report_timer,
                   is_report_queued, report_sent, queued_report_id,
                   handshake_counter, device_info, player_id, input_mode,
                   is_imu_enabled, is_vibration_enabled, cal,
                   uartVars, now, booted, host_reports, awaiting, rxHistVars>>

\* tud_umount_cb
tud_umount_cb ==
    /\ booted
    /\ link_events < MaxLinkEvents
    /\ link_events' = link_events + 1
    /\ forced_ready' = FALSE
    /\ is_ready' = MountReady
    /\ is_initialized' = FALSE
    /\ obs' = ObsOf("link")
    /\ phase' = "reset"
    /\ quiet_ticks' = 0
    /\ quiet_sent' = 0
    /\ UNCHANGED <<g_input_state, report_buffer, last_report, switch_report,
                   last_report_counter, last_report_timer,
                   is_report_queued, report_sent, queued_report_id,
                   handshake_counter, device_info, player_id, input_mode,
                   is_imu_enabled, is_vibration_enabled, cal,
                   uartVars, now, booted, host_reports, awaiting, rxHistVars>>

(* ------------------------------ HID callbacks --------------------------- *)
\* a handler that forgets to raise the flag
QueueReplyNever(canSend, queued) == queued

\* "if (canSend) is_report_queued = true" at the end of both handlers
QueueReply(canSend, queued) == IF canSend THEN TRUE ELSE queued

\* the body shared by tud_hid_set_report_cb (after its report_type test) and
\* tud_hid_report_received_cb: clear bufsize bytes, dispatch on buffer[0]
HostReport(report_id, rd, bufsize, junk) ==
    LET cleared == ClearPrefix(report_buffer, bufsize)
        switchReportID == rd[0]
        switchReportSubID == rd[1]
        isFeature == switchReportID = REPORT_FEATURE
        isConfig == switchReportID = REPORT_CONFIGURATION
        f == handle_feature_report(cleared, rd, switch_report, last_report_counter,
                                   device_info, Session, junk)
        c == handle_config_report(cleared, switchReportSubID, device_info, is_ready)
        handled == isFeature \/ isConfig
    IN /\ report_buffer' = IF isFeature THEN f.report_buffer
                           ELSE IF isConfig THEN c.report_buffer ELSE cleared
       /\ queued_report_id' = IF handled THEN report_id ELSE queued_report_id
       /\ is_ready' = IF isConfig THEN c.is_ready ELSE is_ready
       /\ input_mode' = IF isFeature THEN f.ses.input_mode ELSE input_mode
       /\ player_id' = IF isFeature THEN f.ses.player_id ELSE player_id
       /\ is_imu_enabled' = IF isFeature THEN f.ses.is_imu_enabled ELSE is_imu_enabled
       /\ is_vibration_enabled' =
              IF isFeature THEN f.ses.is_vibration_enabled ELSE is_vibration_enabled
       /\ is_report_queued' =
              IF isFeature THEN QueueReply(f.canSend, is_report_queued)
              ELSE IF isConfig THEN QueueReply(c.canSend, is_report_queued)
              ELSE is_report_queued
       /\ obs' = [ObsOf("host") EXCEPT !.rid = switchReportID,
                     !.sub = IF isFeature THEN rd[10] ELSE switchReportSubID,
                     !.output = TRUE, !.rd = rd]
       /\ awaiting' = IF handled THEN TRUE ELSE awaiting
       /\ phase' = IF isConfig /\ switchReportSubID = DISABLE_USB_TIMEOUT
                   THEN "handshaken" ELSE phase
       /\ quiet_ticks' = 0
       /\ quiet_sent' = 0
       /\ UNCHANGED <<g_input_state, last_report, switch_report,
                      last_report_counter, last_report_timer,
                      is_initialized, report_sent, forced_ready, handshake_counter,
                      device_info, cal, uartVars, now, booted, link_events,
                      rxHistVars>>

\* tud_hid_set_report_cb for a payload of the set P with a bufsize of the set
\* S: anything but an OUTPUT report returns at once
SetReportCb(P, S) ==
    /\ booted
    /\ host_reports < MaxHostReports
    /\ host_reports' = host_reports + 1
    /\ \E report_id \in ReportIds, rd \in P, bufsize \in S,
          report_type \in {HID_REPORT_TYPE_OUTPUT, HID_REPORT_TYPE_FEATURE},
          junk \in JunkBytes :
          IF report_type # HID_REPORT_TYPE_OUTPUT
            THEN /\ obs' = [ObsOf("host") EXCEPT !.rid = rd[0], !.sub = rd[1]]
                 /\ UNCHANGED <<driverVars, uartVars, now, booted, link_events,
                                histVars, rxHistVars>>
            ELSE HostReport(report_id, rd, bufsize, junk)

\* tud_hid_report_received_cb: data on the interrupt OUT endpoint
ReportReceivedCb(P, S) ==
    /\ booted
    /\ host_reports < MaxHostReports
    /\ host_reports' = host_reports + 1
    /\ \E report_id \in ReportIds, rd \in P, bufsize \in S, junk \in JunkBytes :
          HostReport(report_id, rd, bufsize, junk)

\* the two callbacks as the scheduler's specification drives them
tud_hid_set_report_cb == SetReportCb(HostPayloads, BufSizes)

tud_hid_report_received_cb == ReportReceivedCb(HostPayloads, BufSizes)

\* the two callbacks driven with every sub-command byte
set_report_any == SetReportCb(AllPayloads, AllBufSizes)

report_received_any == ReportReceivedCb(AllPayloads, AllBufSizes)

\* tud_hid_report_received_cb handed a session command, any number of times
session_request ==
    /\ booted
    /\ UNCHANGED host_reports
    /\ \E report_id \in ReportIds, rd \in SessionPayloads, bufsize \in BufSizes,
          junk \in JunkBytes : HostReport(report_id, rd, bufsize, junk)

\* tud_hid_report_received_cb handed a spi-read request
spi_read_request == ReportReceivedCb(SpiPayloads, AllBufSizes)

(* ------------------------------ report scheduler ------------------------ *)
\* a scheduler that waits one millisecond longer
IntervalElapsedLate(n, last) == SubU32(n, last) > SWITCH_PRO_KEEPALIVE_TIMER + 1

\* (now - last_report_timer) > SWITCH_PRO_KEEPALIVE_TIMER, in uint32_t
IntervalElapsed(n, last) == SubU32(n, last) > SWITCH_PRO_KEEPALIVE_TIMER

\* send_report's update of last_report_counter
NextCounter(c) == IF c < 255 THEN c + 1 ELSE 0

\* is_report_queued after the reply branch has run with the interval elapsed
QueuedAfterReply(accepted) == FALSE

\* the guard of the periodic branch: is_ready && !report_sent
PeriodicBranch(ready, sent) == ready /\ ~sent

\* a periodic branch that leaves the timestamp alone
StampReportNone(rep, counter) == rep

\* the report the periodic branch compares and sends: timestamp stamped
StampReport(rep, counter) == [rep EXCEPT !.timestamp = counter]

\* a periodic branch that takes the snapshot whether or not the send succeeded
SnapshotAlways(ok, rep, last) == rep

\* last_report after the periodic branch's send: memcpy(last_report, ...)
\* only inside the if of a successful send
SnapshotAfterSend(ok, rep, last) == IF ok THEN rep ELSE last

\* switch_pro_task with t1, t2 the transport's answers to the first and the
\* second send attempt of the tick, entered with the clock reading n. The
\* code uses the clock only in (now - last_report_timer): with rebased set
\* the two are stored relative to last_report_timer, and the histories that
\* count ticks are not kept
TickAt(n, rebased, t1, t2) ==
    LET sr1 == update_switch_report_from_state(switch_report, g_input_state, cal)
        queued == is_report_queued
        dueA == IntervalElapsed(n, last_report_timer)
        takeA == queued /\ dueA
        handA == takeA /\ t1 # "busy"
        okA == handA /\ t1 = "accept"
        cntA == IF handA THEN NextCounter(last_report_counter) ELSE last_report_counter
        queuedA == IF takeA THEN QueuedAfterReply(okA) ELSE is_report_queued
        timerA == IF takeA THEN n ELSE last_report_timer
        sentA == queued
        inB == PeriodicBranch(is_ready, sentA)
        dueB == inB /\ IntervalElapsed(n, timerA)
        sr2 == IF dueB THEN StampReport(sr1, cntA) ELSE sr1
        diffB == dueB /\ last_report # sr2
        handB == diffB /\ t1 # "busy"
        okB == handB /\ t1 = "accept"
        inC == ~inB /\ ~is_initialized
        tC == IF takeA THEN t2 ELSE t1
        handC == inC /\ tC # "busy"
        okC == handC /\ tC = "accept"
        quiet == /\ is_ready /\ ~queued /\ t1 = "accept"
                 /\ n - last_report_timer > SWITCH_PRO_KEEPALIVE_TIMER
        timerC == IF diffB \/ inC THEN n ELSE timerA
        sent == (IF handA THEN <<[kind |-> "reply", ok |-> okA]>> ELSE <<>>)
                \o (IF handB THEN <<[kind |-> "input", ok |-> okB]>> ELSE <<>>)
                \o (IF handC THEN <<[kind |-> "identify", ok |-> okC]>> ELSE <<>>)
    IN /\ now' = (IF rebased THEN n - timerC ELSE n)
       /\ switch_report' = sr2
       /\ is_report_queued' = queuedA
       /\ last_report_counter' = IF handB THEN NextCounter(cntA) ELSE cntA
       /\ last_report' = SnapshotAfterSend(okB, sr2, last_report)
       /\ report_buffer' = IF inC THEN send_identify(device_info) ELSE report_buffer
       /\ is_initialized' = (is_initialized \/ okC)
       /\ last_report_timer' = (IF rebased THEN 0 ELSE timerC)
       /\ report_sent' = (sentA \/ okB \/ okC)
       /\ obs' = [ObsOf("tick") EXCEPT !.queued0 = queued,
                     !.due0 = (n - last_report_timer > SWITCH_PRO_KEEPALIVE_TIMER),
                     !.differs0 = (last_report # [sr1 EXCEPT !.timestamp = last_report_counter]),
                     !.busy = (t1 = "busy"),
                     !.sent = sent]
       /\ awaiting' = IF okA THEN FALSE ELSE awaiting
       /\ quiet_ticks' = IF quiet /\ ~rebased THEN quiet_ticks + 1 ELSE 0
       /\ quiet_sent' = IF quiet /\ ~rebased THEN quiet_sent + BoolBit(okB) ELSE 0
       /\ UNCHANGED <<g_input_state, is_ready,
                      queued_report_id, forced_ready, handshake_counter,
                      device_info, player_id, input_mode, is_imu_enabled,
                      is_vibration_enabled, cal, uartVars, booted, host_reports,
                      link_events, phase, rxHistVars>>

\* switch_pro_task entered with the clock reading now'
Tick(t1, t2) == TickAt(now', FALSE, t1, t2)

\* switch_pro_task, once per iteration of the main loop; the first thing it
\* does is read the millisecond clock, which has moved on by d
switch_pro_task ==
    /\ booted
    /\ \E d \in TimeSteps :
          /\ now + d <= MaxTime
          /\ now' = now + d
          /\ \E t1 \in Transport :
                \* a second send attempt is made only after a due reply
                \* while not initialized
                \E t2 \in (IF is_report_queued /\ ~is_initialized
                               /\ IntervalElapsed(now + d, last_report_timer)
                            THEN Transport ELSE {"busy"}) : Tick(t1, t2)

\* switch_pro_task on the clock stored relative to last_report_timer, d ms
\* after the previous reading: elapsed times above the interval all behave
\* alike, so the reading stops at SWITCH_PRO_KEEPALIVE_TIMER + 1; the
\* transport answers t1, and tud_hid_report() fails at most MaxRejects times
\* in a row (send_report has counted at most MaxRejects sends since the
\* snapshot in last_report was taken)
LiveTick(d, t1) ==
    /\ booted
    /\ t1 = "reject" =>
          (last_report_counter - last_report.timestamp) % 256 <= MaxRejects
    /\ TickAt(Min(now + d, SWITCH_PRO_KEEPALIVE_TIMER + 1), TRUE, t1, "busy")

\* switch_pro_task, once per iteration of the main loop, without an end: in
\* the millisecond of the previous reading or a full interval later
switch_pro_task_live ==
    \E d \in {0, SWITCH_PRO_KEEPALIVE_TIMER + 1}, t1 \in Transport : LiveTick(d, t1)

(* ------------------------------ frame decoder --------------------------- *)
\* the bytes the serial link delivers
UartBytes == {UART_SOF, 5}

\* the milliseconds between a byte and the one before it
UartGaps == {20, 21}

\* a decoder without the inter-byte deadline
StaleDataNever(has, n, last) == FALSE

\* has_last_byte && (now - to_ms_since_boot(last_byte_time)) > 20
StaleData(has, n, last) == has /\ (n - last) > UART_STALE_MS

\* a decoder that accumulates whatever byte comes first
WaitForMarkerOff(idx, byte) == FALSE

\* index == 0 && byte != 0xAA: the byte is skipped
WaitForMarker(idx, byte) == idx = 0 /\ byte # UART_SOF

\* a decoder that waits for one byte more than the frame holds
FrameCompleteLate(idx) == idx > UART_FRAME_SIZE

\* index >= sizeof(buffer)
FrameComplete(idx) == idx >= UART_FRAME_SIZE

\* the last k entries of the history h
LastOf(h, k) == IF Len(h) <= k THEN h ELSE SubSeq(h, Len(h) - k + 1, Len(h))

\* one iteration of the while loop of poll_uart_frames: the byte read from the
\* UART at clock reading n
RxByte(byte, n) ==
    LET stale == StaleData(has_last_byte, n, last_byte_time)
        idx0 == IF stale THEN 0 ELSE index
        skip == WaitForMarker(idx0, byte)
        buf1 == IF skip THEN buffer ELSE [buffer EXCEPT ![idx0] = byte]
        idx1 == IF skip THEN idx0 ELSE idx0 + 1
        full == ~skip /\ FrameComplete(idx1)
        parsed == switch_pro_apply_uart_packet(buf1, UART_FRAME_SIZE)
        gap == IF has_last_byte THEN n - last_byte_time ELSE 0
    IN /\ last_byte_time' = n
       /\ has_last_byte' = TRUE
       /\ buffer' = buf1
       /\ index' = IF full THEN 0 ELSE idx1
       /\ g_user_state' = IF full /\ parsed.ok THEN parsed.state ELSE g_user_state
       /\ obs' = [ObsOf("rx") EXCEPT !.emitted = (full /\ parsed.ok)]
       /\ rx_hist' = LastOf(Append(rx_hist, [b |-> byte, gap |-> gap, idx |-> index]),
                            UART_FRAME_SIZE)
       /\ rx_count' = rx_count + 1
       /\ rx_dropped' = (rx_dropped \/ skip \/ (stale /\ index > 0))
       /\ rx_stalls' = IF gap > UART_STALE_MS THEN rx_stalls + 1 ELSE rx_stalls

\* poll_uart_frames: uart_getc delivers a byte, the clock is read
poll_uart_frames ==
    /\ rx_count < MaxRx
    /\ \E byte \in UartBytes, d \in UartGaps :
          /\ (has_last_byte /\ d > UART_STALE_MS) => rx_stalls < MaxStalls
          /\ now' = now + d
          /\ RxByte(byte, now + d)
    /\ UNCHANGED <<driverVars, uart_tx, booted, host_reports, link_events, histVars>>

(* ------------------------------ rumble relay --------------------------- *)
RECURSIVE SumU8(_, _)
\* the loop "checksum = (uint8_t)(checksum + frame[i])" over the first n bytes
SumU8(frame, n) == IF n = 0 THEN 0 ELSE (SumU8(frame, n - 1) + frame[n]) % 256

\* a checksum loop that stops one byte early
RumbleChecksumShort(frame) == SumU8(frame, 9)

\* the checksum of send_rumble_uart_frame: the first 10 bytes of the frame
RumbleChecksum(frame) == SumU8(frame, 10)

\* send_rumble_uart_frame: the 11 bytes written to the UART for the 8-byte
\* payload rumble
send_rumble_uart_frame(rumble) ==
    LET head == <<UART_RUMBLE_HEADER, UART_RUMBLE_RUMBLE_TYPE>> \o rumble
    IN Append(head, RumbleChecksum(head))

\* the haptic payloads the driver reports: every mix of 0x00 and 0xFF bytes,
\* and two payloads of distinct bytes
RumblePayloads ==
    [1..8 -> {0, 255}]
    \cup {<<1, 2, 3, 4, 5, 6, 7, 8>>, <<16, 32, 48, 64, 80, 96, 112, 128>>}

\* on_rumble_from_switch: the callback the driver invokes with a payload
on_rumble_from_switch ==
    /\ booted
    /\ \E rumble \in RumblePayloads :
          /\ uart_tx' = send_rumble_uart_frame(rumble)
          /\ obs' = [ObsOf("rumble") EXCEPT !.rd = rumble]
    /\ UNCHANGED <<driverVars, buffer, index, last_byte_time, has_last_byte,
                   g_user_state, envVars, histVars, rxHistVars>>

\* the packets handed to switch_pro_apply_uart_packet: every direction byte,
\* every axis byte on each axis, every bit of the button word, a packet
\* without the start-of-frame marker
DecodePackets ==
    {Frame(<<UART_SOF, 0, 0, v, v, (v + 1) % 256, 255 - v, (v + 128) % 256>>) :
        v \in Byte}
    \cup {Frame(<<UART_SOF, lo, 0, 0, 128, 128, 128, 128>>) :
             lo \in {1, 2, 4, 8, 16, 32, 64, 128, 255}}
    \cup {Frame(<<UART_SOF, 0, hi, 0, 128, 128, 128, 128>>) :
             hi \in {1, 2, 4, 8, 16, 32, 64, 128, 255}}
    \cup {Frame(<<5, 1, 0, 0, 128, 128, 128, 128>>)}

\* the calls: each packet as a full buffer, and one packet a byte short
DecodeCalls ==
    {<<p, UART_FRAME_SIZE>> : p \in DecodePackets}
    \cup {<<Frame(<<UART_SOF, 1, 0, 0, 128, 128, 128, 128>>), UART_FRAME_SIZE - 1>>}

\* lines 96-98 of poll_uart_frames on their own: a packet is handed to
\* switch_pro_apply_uart_packet and g_user_state takes the parsed state
apply_uart_packet ==
    \E call \in DecodeCalls :
        LET packet == call[1]
            parsed == switch_pro_apply_uart_packet(packet, call[2])
        IN /\ buffer' = packet
           /\ g_user_state' = IF parsed.ok THEN parsed.state ELSE g_user_state
           /\ obs' = [ObsOf("decode") EXCEPT !.emitted = parsed.ok, !.rd = packet]
           /\ UNCHANGED <<driverVars, index, last_byte_time, has_last_byte, uart_tx,
                          envVars, histVars, rxHistVars>>

NextUart == poll_uart_frames

\* the frame decoder alone, fed by the serial link
SpecUart == Init /\ [][NextUart]_vars

(* ------------------------------ specification --------------------------- *)
Next ==
    \/ switch_pro_init
    \/ switch_pro_set_input
    \/ tud_mount_cb
    \/ tud_umount_cb
    \/ tud_hid_set_report_cb
    \/ tud_hid_report_received_cb
    \/ switch_pro_task

Spec == Init /\ [][Next]_vars

NextCmd ==
    \/ switch_pro_init
    \/ set_report_any
    \/ report_received_any

\* the command interpreter driven with every sub-command byte
SpecCmd == Init /\ [][NextCmd]_vars

\* raw axis samples: both ends of every 16-wide class that raw >> 4 maps
\* to one 12-bit value, the four axes running through the classes in
\* different orders
AxisInputs ==
    {[make_neutral_state EXCEPT !.lx = (16 * k) + e, !.ly = 65535 - ((16 * k) + e),
                                !.rx = 65535 - ((16 * k) + e), !.ry = (16 * k) + e] :
        k \in 0..4095, e \in {0, 15}}

\* main() past switch_pro_init() and switch_pro_set_input(state), for each
\* state of AxisInputs
InitCal ==
    /\ g_input_state \in AxisInputs
    /\ report_buffer = BufZero
    /\ last_report = ReportZero
    /\ switch_report = ReportInit
    /\ last_report_counter = 0
    /\ last_report_timer = 0
    /\ is_ready = InitReady
    /\ is_initialized = InitInitialized
    /\ is_report_queued = FALSE
    /\ report_sent = FALSE
    /\ queued_report_id = 0
    /\ forced_ready = TRUE
    /\ handshake_counter = 0
    /\ device_info \in {DeviceInfoInit(r) : r \in RandomMacs}
    /\ player_id = 0
    /\ input_mode = 48
    /\ is_imu_enabled = FALSE
    /\ is_vibration_enabled = FALSE
    /\ cal = CalParsed
    /\ buffer = [i \in 0..(UART_FRAME_SIZE - 1) |-> 0]
    /\ index = 0
    /\ last_byte_time = 0
    /\ has_last_byte = FALSE
    /\ g_user_state = g_input_state
    /\ uart_tx = <<>>
    /\ now = 0
    /\ booted = TRUE
    /\ host_reports = 0
    /\ link_events = 0
    /\ obs = ObsOf("input")
    /\ awaiting = FALSE
    /\ phase = "boot"
    /\ quiet_ticks = 0
    /\ quiet_sent = 0
    /\ rx_hist = <<>>
    /\ rx_count = 0
    /\ rx_dropped = FALSE
    /\ rx_stalls = 0

\* the call of update_switch_report_from_state() that opens switch_pro_task
update_report ==
    /\ booted
    /\ switch_report' = update_switch_report_from_state(switch_report, g_input_state, cal)
    /\ obs' = ObsOf("update")
    /\ UNCHANGED <<g_input_state, report_buffer, last_report,
                   last_report_counter, last_report_timer,
                   is_ready, is_initialized, is_report_queued, report_sent,
                   queued_report_id, forced_ready, handshake_counter,
                   device_info, player_id, input_mode, is_imu_enabled,
                   is_vibration_enabled, cal,
                   uartVars, envVars, histVars, rxHistVars>>

NextCal == update_report

\* the report builder on every raw axis sample
SpecCal == InitCal /\ [][NextCal]_vars

NextLive ==
    \/ switch_pro_init
    \/ switch_pro_set_input
    \/ switch_pro_task_live

\* the main loop running for ever: again and again an iteration finds the
\* interval elapsed and the transport accepting (a transport that has become
\* ready stays ready until a report is handed to it)
SpecLive ==
    /\ Init /\ [][NextLive]_vars
    /\ WF_vars(LiveTick(SWITCH_PRO_KEEPALIVE_TIMER + 1, "accept"))

NextSession ==
    \/ switch_pro_init
    \/ session_request

\* the session fields under sequences of feature commands
SpecSession == Init /\ [][NextSession]_vars

NextRumble ==
    \/ switch_pro_init
    \/ on_rumble_from_switch

\* the rumble relay alone
SpecRumble == Init /\ [][NextRumble]_vars

NextFlash ==
    \/ switch_pro_init
    \/ spi_read_request

\* the virtual flash behind the spi-read command
SpecFlash == Init /\ [][NextFlash]_vars

NextDecode == apply_uart_packet

\* the packet decoder alone
SpecDecode == Init /\ [][NextDecode]_vars

(* ------------------------------ properties ------------------------------ *)
\* a tick entered with a reply queued, the interval elapsed, the ready flag
\* set and a fresh report that differs from the last transmitted one
ReplyAndPeriodicDue ==
    /\ obs.op = "tick"
    /\ obs.queued0 /\ obs.due0 /\ obs.differs0
    /\ is_ready

\* C1 as stated: in a tick with a reply queued, the interval elapsed, ready
\* set and a differing fresh report, the reply is handed to the transport and
\* no periodic input report is handed to it in that tick
C1_AsStated ==
    ReplyAndPeriodicDue =>
        /\ obs.sent # <<>> /\ Head(obs.sent).kind = "reply"
        /\ ~HasKind(obs.sent, "input")

\* C1: in such a tick no periodic input report is handed to the transport,
\* and when the transport is ready (tud_hid_ready) the first report handed to
\* it is the reply
C1_ReplyBeforePeriodic ==
    ReplyAndPeriodicDue =>
        /\ ~HasKind(obs.sent, "input")
        /\ ~obs.busy => (obs.sent # <<>> /\ Head(obs.sent).kind = "reply")

C1_Witness ==
    /\ ReplyAndPeriodicDue
    /\ ~obs.busy
    /\ obs.sent = <<[kind |-> "reply", ok |-> TRUE]>>

C3_AsStated ==
    (/\ obs.op = "tick" /\ obs.queued0 /\ obs.due0
     /\ ~HasKind(Transmitted, "reply"))
        => is_report_queued

\* C4 as stated: while the reply to a host request has not been transmitted,
\* no tick transmits anything else
C4_AsStated == (obs.op = "tick" /\ awaiting) => Transmitted = <<>>

\* the step is the processing of a configuration-channel DISABLE_USB_TIMEOUT
HandshakeStep ==
    /\ obs'.op = "host" /\ obs'.output
    /\ obs'.rid = REPORT_CONFIGURATION
    /\ obs'.sub = DISABLE_USB_TIMEOUT

C6_NoInputBeforeReady ==
    (obs.op = "tick" /\ HasKind(obs.sent, "input"))
        => (is_ready /\ phase # "reset")

C6_Witness ==
    /\ obs.op = "tick" /\ HasKind(Transmitted, "input")
    /\ link_events = 1 /\ phase = "handshaken"

\* the reply the handlers write: the configuration channel answers with its
\* report id and the sub-command echoed, the feature channel with report
\* 0x21 and an acknowledgment byte
ReplyWritten ==
    IF obs.rid = REPORT_CONFIGURATION
      THEN /\ report_buffer[0] \in {REPORT_USB_INPUT_81, REPORT_OUTPUT_30}
           /\ report_buffer[1] = obs.sub
      ELSE /\ report_buffer[0] = REPORT_OUTPUT_21
           /\ report_buffer[13] >= 128

\* C7: after an OUTPUT payload on the configuration or the feature channel,
\* whatever its sub-command byte, is_report_queued is set and a reply has
\* been written to report_buffer
C7_EveryCommandAcked ==
    (/\ obs.op = "host" /\ obs.output
     /\ obs.rid \in {REPORT_CONFIGURATION, REPORT_FEATURE})
        => (is_report_queued /\ ReplyWritten)

C7_Witness ==
    /\ obs.op = "host" /\ obs.output
    /\ obs.rid = REPORT_FEATURE /\ obs.sub = 153
    /\ is_report_queued /\ report_buffer[13] = 128

\* the byte the decoder examined last, with the gap to the byte before it and
\* the number of bytes accumulated when it arrived
LastRx == rx_hist[Len(rx_hist)]

\* the decoder was IDLE when it examined the byte e: nothing was accumulated,
\* or what was accumulated had gone stale
IdleAt(e) == e.idx = 0 \/ e.gap > UART_STALE_MS

\* the last UART_FRAME_SIZE bytes received, as a packet
RxPacket == [i \in 0..(UART_FRAME_SIZE - 1) |-> rx_hist[i + 1].b]

\* C8: a byte other than 0xAA that arrives with nothing accumulated is
\* discarded, and a frame is emitted only when the last UART_FRAME_SIZE bytes
\* are one uninterrupted run that began with 0xAA seen while IDLE; the state
\* emitted is the decoding of exactly those bytes
C8_OnlySyncedFramesEmitted ==
    /\ (obs.op = "rx" /\ LastRx.idx = 0 /\ LastRx.b # UART_SOF)
          => (index = 0 /\ ~obs.emitted)
    /\ (obs.op = "rx" /\ obs.emitted)
          => /\ Len(rx_hist) = UART_FRAME_SIZE
             /\ rx_hist[1].b = UART_SOF /\ IdleAt(rx_hist[1])
             /\ \A k \in 2..UART_FRAME_SIZE :
                   rx_hist[k].idx = k - 1 /\ rx_hist[k].gap <= UART_STALE_MS
             /\ g_user_state = switch_pro_apply_uart_packet(RxPacket, UART_FRAME_SIZE).state

C8_Witness ==
    /\ obs.op = "rx" /\ LastRx.idx = 0 /\ LastRx.b # UART_SOF
    /\ index = 0 /\ rx_count = UART_FRAME_SIZE + 1
    /\ g_user_state # make_neutral_state

\* C9: a byte that arrives more than 20 ms after the one before it finds
\* the accumulated bytes discarded, however many they were, and is treated as
\* a byte seen while IDLE: it starts a frame if it is 0xAA and is dropped
\* otherwise, and it never completes a frame
C9_StallResets ==
    (obs.op = "rx" /\ LastRx.gap > UART_STALE_MS)
        => /\ index = (IF LastRx.b = UART_SOF THEN 1 ELSE 0)
           /\ LastRx.b = UART_SOF => buffer[0] = UART_SOF
           /\ ~obs.emitted

C9_Witness ==
    /\ obs.op = "rx" /\ LastRx.gap > UART_STALE_MS
    /\ LastRx.idx = UART_FRAME_SIZE - 1
    /\ LastRx.b = UART_SOF /\ index = 1

\* C10: a 0xAA seen while IDLE starts a frame, and UART_FRAME_SIZE bytes
\* that begin with a 0xAA seen while IDLE and follow one another within the
\* deadline are decoded and emitted, whatever was dropped before them
C10_Resync ==
    /\ (obs.op = "rx" /\ IdleAt(LastRx) /\ LastRx.b = UART_SOF)
          => (index = 1 /\ buffer[0] = UART_SOF)
    /\ (/\ obs.op = "rx" /\ Len(rx_hist) = UART_FRAME_SIZE
         /\ rx_hist[1].b = UART_SOF /\ IdleAt(rx_hist[1])
         /\ \A k \in 2..UART_FRAME_SIZE : rx_hist[k].gap <= UART_STALE_MS)
          => /\ obs.emitted
             /\ index = 0
             /\ g_user_state = switch_pro_apply_uart_packet(RxPacket, UART_FRAME_SIZE).state

C10_Witness ==
    /\ obs.op = "rx" /\ obs.emitted /\ rx_dropped
    /\ rx_stalls = 1
    /\ g_user_state # make_neutral_state

\* C11 as stated: the third byte of a frame is its payload length, and a
\* length that makes the total, payloadLen + 4, exceed the buffer capacity
\* makes the decoder discard what it accumulated and resync, so that no frame
\* is emitted from those bytes
C11_AsStated ==
    (/\ obs.op = "rx" /\ Len(rx_hist) >= 3
     /\ LastRx.idx = 2 /\ LastRx.gap <= UART_STALE_MS
     /\ LastRx.b + 4 > UART_FRAME_SIZE)
        => index = 0

\* the dpad flags <<up, right, down, left>> of the mapping for a direction code
DpadTable(h) ==
    CASE h = SWITCH_PRO_HAT_UP -> <<TRUE, FALSE, FALSE, FALSE>>
      [] h = SWITCH_PRO_HAT_UPRIGHT -> <<TRUE, TRUE, FALSE, FALSE>>
      [] h = SWITCH_PRO_HAT_RIGHT -> <<FALSE, TRUE, FALSE, FALSE>>
      [] h = SWITCH_PRO_HAT_DOWNRIGHT -> <<FALSE, TRUE, TRUE, FALSE>>
      [] h = SWITCH_PRO_HAT_DOWN -> <<FALSE, FALSE, TRUE, FALSE>>
      [] h = SWITCH_PRO_HAT_DOWNLEFT -> <<FALSE, FALSE, TRUE, TRUE>>
      [] h = SWITCH_PRO_HAT_LEFT -> <<FALSE, FALSE, FALSE, TRUE>>
      [] h = SWITCH_PRO_HAT_UPLEFT -> <<TRUE, FALSE, FALSE, TRUE>>
      [] OTHER -> <<FALSE, FALSE, FALSE, FALSE>>

\* the dpad flags of the decoded state, in the order of DpadTable
DpadFlags ==
    <<g_user_state.dpad_up, g_user_state.dpad_right,
      g_user_state.dpad_down, g_user_state.dpad_left>>

\* the 14 button flags of the decoded state
ButtonFlags ==
    <<g_user_state.button_y, g_user_state.button_b, g_user_state.button_a,
      g_user_state.button_x, g_user_state.button_l, g_user_state.button_r,
      g_user_state.button_zl, g_user_state.button_zr, g_user_state.button_minus,
      g_user_state.button_plus, g_user_state.button_l3, g_user_state.button_r3,
      g_user_state.button_home, g_user_state.button_capture>>

Decoded == obs.op = "decode" /\ obs.emitted

\* C12: after a packet is decoded, whatever the state before, the dpad flags
\* are those of the mapping for its direction byte: one flag for a cardinal
\* code, two for a diagonal, none for the neutral code or any other value
C12_DpadMapping == Decoded => DpadFlags = DpadTable(obs.rd[3])

C12_Witness ==
    /\ Decoded /\ obs.rd[3] = SWITCH_PRO_HAT_DOWNLEFT
    /\ DpadFlags = <<FALSE, FALSE, TRUE, TRUE>>

\* C13: after a packet is decoded each 16-bit axis is 257 times its axis
\* byte, which is (v << 8) | v: 0 for 0x00, 65535 for 0xFF, strictly
\* increasing in v
C13_AxisExpansion ==
    Decoded =>
        /\ g_user_state.lx = 257 * obs.rd[4]
        /\ g_user_state.ly = 257 * obs.rd[5]
        /\ g_user_state.rx = 257 * obs.rd[6]
        /\ g_user_state.ry = 257 * obs.rd[7]

C13_Witness ==
    /\ Decoded /\ obs.rd[4] = 255 /\ g_user_state.lx = 65535
    /\ obs.rd[6] = 0 /\ g_user_state.rx = 0

\* the legacy frame of the scenario has been decoded
ScenarioFrameDecoded ==
    /\ obs.op = "decode"
    /\ obs.rd = Frame(<<170, 1, 0, 0, 128, 128, 128, 128>>)
    /\ buffer = obs.rd

\* the four axes are at 0x8080
AxesAt8080 ==
    /\ g_user_state.lx = 32896 /\ g_user_state.ly = 32896
    /\ g_user_state.rx = 32896 /\ g_user_state.ry = 32896

WireX(d) == d[1] + ((d[2] % 16) * 256)

WireY(d) == (d[2] \div 16) + (d[3] * 16)

\* C16: in a report built from any raw axis samples, each stick coordinate
\* on the wire lies between the calibrated minimum and maximum of its stick
\* and axis
C16_SticksWithinCalibration ==
    obs.op = "update" =>
        LET l == switch_report.inputs.leftStick
            r == switch_report.inputs.rightStick
        IN /\ cal.leftMinX <= WireX(l) /\ WireX(l) <= cal.leftMaxX
           /\ cal.leftMinY <= WireY(l) /\ WireY(l) <= cal.leftMaxY
           /\ cal.rightMinX <= WireX(r) /\ WireX(r) <= cal.rightMaxX
           /\ cal.rightMinY <= WireY(r) /\ WireY(r) <= cal.rightMaxY

C16_Witness ==
    /\ obs.op = "update"
    /\ g_input_state.lx = 0 /\ g_input_state.ly = 65535
    /\ WireX(switch_report.inputs.leftStick) = cal.leftMinX
    /\ WireY(switch_report.inputs.leftStick) = cal.leftMinY
    /\ cal.leftMinX < cal.leftMaxX

\* C17: the relay writes 11 bytes: 0xBB, 0x01, the 8 payload bytes unchanged
\* and in order, and the sum of those 10 bytes modulo 256
C17_RumbleFrame ==
    obs.op = "rumble" =>
        /\ Len(uart_tx) = 11
        /\ uart_tx[1] = 187 /\ uart_tx[2] = 1
        /\ \A i \in 1..8 : uart_tx[2 + i] = obs.rd[i]
        /\ uart_tx[11] = (187 + 1 + obs.rd[1] + obs.rd[2] + obs.rd[3] + obs.rd[4]
                            + obs.rd[5] + obs.rd[6] + obs.rd[7] + obs.rd[8]) % 256

C17_Witness ==
    /\ obs.op = "rumble"
    /\ obs.rd = <<16, 32, 48, 64, 80, 96, 112, 128>>
    /\ uart_tx[11] = 252

\* C18 as stated: after a mount or unmount every SessionState field is at
\* its default: ready and initialized false, player id 0, input mode 0x30,
\* IMU and vibration disabled
C18_AsStated ==
    obs.op = "link" =>
        /\ ~is_ready /\ ~is_initialized
        /\ player_id = 0 /\ input_mode = 48
        /\ ~is_imu_enabled /\ ~is_vibration_enabled

\* the last step processed the feature command cmd
FeatureDone(o, cmd) ==
    /\ o.op = "host" /\ o.output
    /\ o.rid = REPORT_FEATURE /\ o.sub = cmd

\* C20 as stated: set-player-lights(p) stores p, and a get-player-lights
\* that follows it replies with p and leaves the stored id equal to p
C20_AsStated ==
    [][/\ FeatureDone(obs', SET_PLAYER_LIGHTS) => player_id' = obs'.rd[11]
       /\ (FeatureDone(obs, SET_PLAYER_LIGHTS) /\ FeatureDone(obs', GET_PLAYER_LIGHTS))
             => (report_buffer'[15] = obs.rd[11] /\ player_id' = obs.rd[11])]_vars

\* the last step processed a spi-read request
SpiReadDone ==
    /\ obs.op = "host" /\ obs.output
    /\ obs.rid = REPORT_FEATURE /\ obs.sub = SPI_READ

\* the address of the request, its bank and offset, and its size
SpiAddress == obs.rd[11] + (256 * obs.rd[12]) + (65536 * obs.rd[13])

SpiBank == SpiAddress - (SpiAddress % 256)

SpiOffset == SpiAddress % 256

SpiSize == obs.rd[15]

\* byte i of the blob of the request's bank exists
FlashByteExists(i) ==
    CASE SpiBank = FLASH_BANK_FACTORY -> i < FACTORY_SIZE
      [] SpiBank = FLASH_BANK_USERCAL -> i < USERCAL_SIZE
      [] OTHER -> TRUE

\* the byte the virtual flash holds at index i of the request's bank
FlashByte(i) ==
    CASE SpiBank = FLASH_BANK_FACTORY -> factory_config_data(i)
      [] SpiBank = FLASH_BANK_USERCAL -> user_calibration_data(i)
      [] OTHER -> 255

\* C15 as stated: the destination of a read (the reply buffer from offset 20)
\* receives, for every k below the size, the blob byte at offset + k of a
\* mapped bank, and 0xFF for a bank that is not mapped
C15_AsStated ==
    SpiReadDone =>
        \A k \in 0..(SpiSize - 1) :
            (20 + k) \in BufIdx =>
                /\ FlashByteExists(SpiOffset + k)
                /\ report_buffer[20 + k] = FlashByte(SpiOffset + k)

\* C19 as stated: the reply to a spi-read request carries the four address
\* bytes and the size byte of the request at offsets 15..19, and behind them,
\* from offset 20, size data bytes that are the virtual flash read
C19_AsStated ==
    SpiReadDone =>
        /\ is_report_queued
        /\ \A j \in 0..4 : report_buffer[15 + j] = obs.rd[11 + j]
        /\ \A k \in 0..(SpiSize - 1) :
              /\ (20 + k) \in BufIdx
              /\ report_buffer[20 + k] = FlashByte(SpiOffset + k)

\* the last step was a tick that handed a report of kind k to the transport
TickHanded(o, k) == o.op = "tick" /\ HasKind(o.sent, k)

\* C22 as stated: while the session is not initialized and the transport
\* refuses the identification report, two successive identification attempts
\* of the scheduler are more than the minimum send interval apart
C22_AsStated ==
    [][(/\ TickHanded(obs, "identify") /\ ~is_initialized
        /\ TickHanded(obs', "identify"))
          => now' - now > SWITCH_PRO_KEEPALIVE_TIMER]_vars

\* C23 as stated: a tick transmits at most one report, and two ticks in a
\* row that each transmit a report are more than the minimum send interval
\* apart on the millisecond clock
C23_AsStated ==
    [][/\ (obs'.op = "tick" => Len(Transmitted') <= 1)
       /\ (/\ obs.op = "tick" /\ Transmitted # <<>>
           /\ obs'.op = "tick" /\ Transmitted' # <<>>)
             => now' - now > SWITCH_PRO_KEEPALIVE_TIMER]_vars

\* C24 as stated: a tick entered with is_initialized set hands no
\* identification report to the transport, and a tick that hands one over
\* is not a tick in which a due reply or a periodic input report was chosen
C24_AsStated ==
    [][TickHanded(obs', "identify") =>
          /\ ~is_initialized
          /\ ~(obs'.queued0 /\ obs'.due0)
          /\ ~HasKind(obs'.sent, "input")]_vars

\* C25 as stated: a tick that leaves a queued reply queued changes neither
\* the pending payload in report_buffer nor last_report_timer, from which
\* the reply's due time is counted
C25_AsStated ==
    [][(is_report_queued /\ obs'.op = "tick" /\ is_report_queued')
          => (report_buffer' = report_buffer
              /\ last_report_timer' = last_report_timer)]_vars

\* C26 as stated: an inbound payload on a channel other than the
\* configuration and the feature channel, or of a report type other than
\* OUTPUT, leaves the session fields, the queued flag, the queued channel id
\* and the bytes of a pending reply as they were
C26_AsStated ==
    [][(/\ obs'.op = "host"
        /\ (obs'.rid \notin {REPORT_FEATURE, REPORT_CONFIGURATION} \/ ~obs'.output))
          => /\ UNCHANGED <<is_ready, is_initialized, player_id, input_mode,
                            is_imu_enabled, is_vibration_enabled>>
             /\ UNCHANGED <<is_report_queued, queued_report_id>>
             /\ is_report_queued => report_buffer' = report_buffer]_vars

\* C27 as stated: the data bytes of a spi-read reply, written from offset 20,
\* end inside the 64-byte report_buffer
C27_AsStated == SpiReadDone => SpiWriteEnd(obs.rd) <= SWITCH_PRO_ENDPOINT_SIZE

\* C28 as stated: a read in a mapped bank ends inside the bank's blob
C28_AsStated ==
    (SpiReadDone /\ SpiBank \in {FLASH_BANK_FACTORY, FLASH_BANK_USERCAL})
        => \A i \in 0..(SpiReadEnd(obs.rd) - 1) : FlashByteExists(i)

\* C29 as stated: a tick hands at most one report to the transport
C29_AsStated == obs.op = "tick" => Len(obs.sent) <= 1
\* the report without its timestamp byte
Content(r) == [r EXCEPT !.timestamp = 0]

\* ready is set and the WireReport of the current input differs from the
\* last transmitted snapshot in more than the timestamp
PendingChange ==
    /\ booted /\ is_ready
    /\ Content(update_switch_report_from_state(switch_report, g_input_state, cal))
          # Content(last_report)

\* the last step was a tick that transmitted a periodic input report
InputTransmitted == obs.op = "tick" /\ HasKind(Transmitted, "input")

\* the last step transmitted the WireReport of the current input
ChangeTransmitted == InputTransmitted /\ ~PendingChange

\* the last step set the input back to the one last transmitted
InputReverted == obs.op = "input" /\ ~PendingChange

\* C21: a periodic send that the transport did not accept leaves last_report
\* unchanged, and with ticks going on, time advancing and the transport
\* accepting again and again, a WireReport that differs from the last
\* transmitted snapshot is transmitted, unless the input goes back to the
\* transmitted one first
C21_RetryUntilSent ==
    /\ [][(TickHanded(obs', "input") /\ ~HasKind(Transmitted', "input"))
            => last_report' = last_report]_vars
    /\ PendingChange ~> (ChangeTransmitted \/ InputReverted)

\* after a report has been transmitted the input changes, and the tick that
\* hands the changed report to the transport is refused: the snapshot is
\* still the transmitted report
C21_Witness ==
    /\ TickHanded(obs, "input") /\ ~InputTransmitted
    /\ PendingChange
    /\ last_report # ReportZero
====
